---- MODULE Spec2Model ----
(***************************************************************************)
(* Idempotency middleware of src/scripts/migrate.js (lines 44-167): the    *)
(* fingerprint (stableStringify, sha256), the per-request control flow of  *)
(* idempotencyMiddleware with its suspension points, the response capture  *)
(* and the 'finish' listener that commits to table idempotency_keys.       *)
(***************************************************************************)
EXTENDS FiniteSets, Integers, Sequences, TLC

(***************************************************************************)
(* JavaScript values.  Every value is a record [t, v]; t is the type tag.  *)
(* An object is the sequence of its own properties, <<key, value>>, in     *)
(* insertion order; an array is the sequence of its elements.              *)
(***************************************************************************)
Undefined == [t |-> "undefined", v |-> <<>>]
Null == [t |-> "null", v |-> <<>>]
Str(s) == [t |-> "string", v |-> s]
Num(n) == [t |-> "number", v |-> n]
Bool(b) == [t |-> "boolean", v |-> b]
Obj(props) == [t |-> "object", v |-> props]
Arr(elems) == [t |-> "array", v |-> elems]
\* an object that refers to itself (o.self = o)
Circular == [t |-> "circular", v |-> <<>>]

\* the property names of the model, in the order Array.prototype.sort gives
KeyOrder ==
  <<"0", "1", "a", "b", "error", "id", "item", "self", "sku", "success">>

IndexKeys(n) == SubSeq(<<"0", "1">>, 1, n)

\* Object.keys(obj): own enumerable property names
ObjectKeys(obj) ==
  CASE obj.t = "object" -> [i \in 1..Len(obj.v) |-> obj.v[i][1]]
    [] obj.t = "array" -> IndexKeys(Len(obj.v))
    [] obj.t = "circular" -> <<"self">>
    [] OTHER -> <<>>

Range(s) == {s[i] : i \in 1..Len(s)}

\* mutant: the property names are not sorted
SortNone(keys) == keys

\* Array.prototype.sort() on property names
Sort(keys) == SelectSeq(KeyOrder, LAMBDA k : k \in Range(keys))

HasOwn(obj, k) == \E i \in 1..Len(obj.v) : obj.v[i][1] = k

Get(obj, k) == obj.v[CHOOSE i \in 1..Len(obj.v) : obj.v[i][1] = k][2]

\* JSON.stringify throws a TypeError on a cyclic structure
RECURSIVE Throws(_)
Throws(val) ==
  CASE val.t = "circular" -> TRUE
    [] val.t = "object" -> \E i \in 1..Len(val.v) : Throws(val.v[i][2])
    [] val.t = "array" -> \E i \in 1..Len(val.v) : Throws(val.v[i])
    [] OTHER -> FALSE

(***************************************************************************)
(* JSON.stringify(value, replacer) with replacer absent (filtered = FALSE) *)
(* or an array of property names (filtered = TRUE, the PropertyList K of   *)
(* the algorithm): K selects and orders the members of EVERY object of the *)
(* value, nested ones included; array elements are never filtered.         *)
(***************************************************************************)
RECURSIVE SerializeJSONProperty(_, _, _)
RECURSIVE SerializeMembers(_, _, _, _, _)
RECURSIVE SerializeElements(_, _, _, _)

SerializeMembers(obj, keys, i, K, filtered) ==
  IF i > Len(keys) THEN ""
  ELSE (IF i > 1 THEN "," ELSE "")
       \o "\"" \o keys[i] \o "\":"
       \o SerializeJSONProperty(Get(obj, keys[i]), K, filtered)
       \o SerializeMembers(obj, keys, i + 1, K, filtered)

SerializeElements(arr, i, K, filtered) ==
  IF i > Len(arr.v) THEN ""
  ELSE (IF i > 1 THEN "," ELSE "")
       \o (IF arr.v[i].t = "undefined" THEN "null"
           ELSE SerializeJSONProperty(arr.v[i], K, filtered))
       \o SerializeElements(arr, i + 1, K, filtered)

SerializeJSONProperty(val, K, filtered) ==
  CASE val.t = "null" -> "null"
    [] val.t = "string" -> "\"" \o val.v \o "\""
    [] val.t = "number" -> ToString(val.v)
    [] val.t = "boolean" -> (IF val.v THEN "true" ELSE "false")
    [] val.t = "array" -> "[" \o SerializeElements(val, 1, K, filtered) \o "]"
    [] val.t = "object" ->
         LET own == IF filtered THEN K ELSE ObjectKeys(val)
             keys == SelectSeq(own, LAMBDA k :
                       HasOwn(val, k) /\ Get(val, k).t # "undefined")
         IN "{" \o SerializeMembers(val, keys, 1, K, filtered) \o "}"

\* JSON.stringify(value): a string, or undefined for an undefined value
JSONstringify(val) ==
  IF val.t = "undefined" THEN Undefined
  ELSE Str(SerializeJSONProperty(val, <<>>, FALSE))

\* stableStringify(obj): [throws, s]
stableStringify(obj) ==
  IF obj.t \in {"null", "undefined"} THEN [throws |-> FALSE, s |-> ""]
  ELSE IF obj.t = "string" THEN [throws |-> FALSE, s |-> obj.v]
  ELSE IF Throws(obj) THEN [throws |-> TRUE, s |-> ""]
  ELSE [throws |-> FALSE,
        s |-> SerializeJSONProperty(obj, Sort(ObjectKeys(obj)), TRUE)]

\* the digest, as the hex string of an injective function of its input
sha256(s) == "sha256(" \o s \o ")"

(***************************************************************************)
(* Strings whose length matters (the Idempotency-Key header): pre and post *)
(* count the leading and trailing whitespace characters, txt names the     *)
(* text between them and len is the length of that text.                   *)
(***************************************************************************)
Text(pre, txt, len, post) == [pre |-> pre, txt |-> txt, len |-> len, post |-> post]
EmptyText == Text(0, "", 0, 0)
Length(s) == s.pre + s.len + s.post
\* String.prototype.trim
Trim(s) == IF s.len = 0 THEN EmptyText ELSE Text(0, s.txt, s.len, 0)

\* String.prototype.toUpperCase on the method names of the model
toUpperCase(m) ==
  CASE m = "post" -> "POST"
    [] m = "put" -> "PUT"
    [] m = "get" -> "GET"
    [] OTHER -> m

(***************************************************************************)
(* Inputs.                                                                 *)
(***************************************************************************)
\* number of requests in flight
NumReqs == 2
Reqs == 1..NumReqs

NoAgent == "<no req.agent>"
NoHeader == [present |-> FALSE, s |-> EmptyText]
Header(s) == [present |-> TRUE, s |-> s]

BodyX == Obj(<< <<"item", Str("x")>> >>)
BodySku1 == Obj(<< <<"item", Obj(<< <<"sku", Num(1)>> >>)>> >>)
BodySku2 == Obj(<< <<"item", Obj(<< <<"sku", Num(2)>> >>)>> >>)

BaseRequest ==
  [method |-> "POST", agent |-> "a1", hdr |-> Header(Text(0, "abc", 3, 0)),
   baseUrl |-> "/api", path |-> "/orders", body |-> BodySku1]

\* requests of one tuple: the base request, and the base request with
\* another body
TupleInputs ==
  <<BaseRequest,
    [BaseRequest EXCEPT !.body = BodySku2],
    [BaseRequest EXCEPT !.body = BodyX]>>

\* requests that differ in what the bypass conditions read: the base request,
\* and the base request with another method, without caller, without header,
\* with a header of 201 characters, and with a header of 201 characters of
\* which the first is whitespace
BypassInputs ==
  <<BaseRequest,
    [BaseRequest EXCEPT !.method = "PUT"],
    [BaseRequest EXCEPT !.agent = NoAgent],
    [BaseRequest EXCEPT !.hdr = NoHeader],
    [BaseRequest EXCEPT !.hdr = Header(Text(0, "L201", 201, 0))],
    [BaseRequest EXCEPT !.hdr = Header(Text(1, "L200", 200, 0))]>>

\* requests of different tuples with one body: the base request, and the base
\* request with another caller, another key, another method, another route
ScopeInputs ==
  <<BaseRequest,
    [BaseRequest EXCEPT !.agent = "a2"],
    [BaseRequest EXCEPT !.hdr = Header(Text(0, "xyz", 3, 0))],
    [BaseRequest EXCEPT !.method = "PUT"],
    [BaseRequest EXCEPT !.path = "/pay"]>>

BodyAB == Obj(<< <<"a", Num(1)>>, <<"b", Num(2)>> >>)
BodyBA == Obj(<< <<"b", Num(2)>>, <<"a", Num(1)>> >>)
BodyNestedAB ==
  Obj(<< <<"a", Obj(<< <<"a", Num(1)>>, <<"b", Num(2)>> >>)>>, <<"b", Null>> >>)
BodyNestedBA ==
  Obj(<< <<"b", Null>>, <<"a", Obj(<< <<"b", Num(2)>>, <<"a", Num(1)>> >>)>> >>)

\* requests that differ in what stableStringify reads: bodies that are objects
\* with the same members in another order (nested ones too), a string that is
\* JSON text with unsorted keys, null, undefined (no body parsed), and an
\* object that refers to itself
FingerprintInputs ==
  <<BaseRequest,
    [BaseRequest EXCEPT !.body = BodyAB],
    [BaseRequest EXCEPT !.body = BodyBA],
    [BaseRequest EXCEPT !.body = BodyNestedAB],
    [BaseRequest EXCEPT !.body = BodyNestedBA],
    [BaseRequest EXCEPT !.body = Str("{\"b\":2,\"a\":1}")],
    [BaseRequest EXCEPT !.body = Null],
    [BaseRequest EXCEPT !.body = Undefined],
    [BaseRequest EXCEPT !.body = Circular]>>

\* opts.methods of idempotency(opts): absent
DefaultOpts == {Undefined}

\* opts.methods of idempotency({ methods: ['post', 'put'] })
PostPutOpts == {Arr(<<"post", "put">>)}

ResponseId == Obj(<< <<"id", Num(1)>> >>)

\* what a downstream handler does with res: the status it sets and the call
\* that emits the body (res.json(value), res.send(string), res.end())
HandlerOutcomes ==
  {[status |-> 201, emit |-> "json", body |-> ResponseId],
   [status |-> 200, emit |-> "send", body |-> Str("ok")],
   [status |-> 204, emit |-> "end", body |-> Undefined],
   [status |-> 299, emit |-> "json", body |-> Num(0)],
   [status |-> 300, emit |-> "json", body |-> ResponseId],
   [status |-> 500, emit |-> "json", body |-> ResponseId]}

(***************************************************************************)
(* State.                                                                  *)
(***************************************************************************)
VARIABLES
  methods,   \* closure of idempotency(): the configured methods, upper-cased
  req,       \* req[r]: the request (method, agent, header, baseUrl, path, body)
  store,     \* table idempotency_keys: a set of rows
  pc,        \* pc[r]: where request r is suspended
  ctx,       \* ctx[r]: the middleware's locals key, route, requestHash, existing
  res,       \* res[r]: the response object of request r
  decision,  \* decision[r]: the branch the middleware took
  calls,     \* calls[r]: invocations of the downstream handler
  nextErr,   \* nextErr[r]: next(err) was called
  commit,    \* commit[r]: progress and outcome of the INSERT of the listener
  hist       \* hist[r]: what had happened when r entered the middleware

vars ==
  <<methods, req, store, pc, ctx, res, decision, calls, nextErr, commit, hist>>

NoCtx == [key |-> EmptyText, route |-> "", requestHash |-> "", existing |-> {}]

\* a fresh Express response: status 200, nothing sent, res.locals empty
NewRes ==
  [statusCode |-> 200, body |-> "", replay |-> FALSE, ended |-> FALSE,
   idemBody |-> Undefined, wrapped |-> FALSE, listener |-> FALSE]

NoParams == [response_body |-> Undefined, status_code |-> 0]

\* const methods = (opts.methods || ['POST']).map((m) => m.toUpperCase())
Methods(optsMethods) ==
  LET list == IF optsMethods.t = "undefined" THEN <<"POST">> ELSE optsMethods.v
  IN {toUpperCase(list[i]) : i \in 1..Len(list)}

\* The requests are numbered in the order of their inputs in the list: the
\* numbers are names only, every action being enabled for every request.
InitWith(inputs, opts) ==
  /\ methods \in {Methods(o) : o \in opts}
  /\ \E f \in [Reqs -> 1..Len(inputs)] :
       /\ \A i, j \in Reqs : i < j => f[i] <= f[j]
       /\ req = [r \in Reqs |-> inputs[f[r]]]
  /\ store = {}
  /\ pc = [r \in Reqs |-> "new"]
  /\ ctx = [r \in Reqs |-> NoCtx]
  /\ res = [r \in Reqs |-> NewRes]
  /\ decision = [r \in Reqs |-> "ENTRY"]
  /\ calls = [r \in Reqs |-> 0]
  /\ nextErr = [r \in Reqs |-> FALSE]
  /\ commit = [r \in Reqs |-> [state |-> "none", params |-> NoParams]]
  /\ hist = [r \in Reqs |-> [sent |-> {}, rows |-> {}]]

Init == InitWith(TupleInputs, DefaultOpts)

InitBypass == InitWith(BypassInputs, DefaultOpts)

InitScopes == InitWith(ScopeInputs, PostPutOpts)

InitFingerprint == InitWith(FingerprintInputs, DefaultOpts)

(***************************************************************************)
(* The store.  Column response_body holds JSON: the driver sends an        *)
(* undefined parameter as NULL and a string as JSON text, which the store  *)
(* rejects when it is no JSON text, and a read returns the parsed value    *)
(* (null for NULL).                                                        *)
(***************************************************************************)
DefaultBody == Obj(<< <<"success", Bool(TRUE)>> >>)
ConflictBody ==
  Obj(<< <<"success", Bool(FALSE)>>,
         <<"error", Str("Idempotency-Key reuse with different request payload")>> >>)

\* the JSON values a column of the model can hold
JsonValues == {Null, Num(0), ResponseId, DefaultBody}

IsJsonText(s) == \E val \in JsonValues : JSONstringify(val).v = s
JSONparse(s) == CHOOSE val \in JsonValues : JSONstringify(val).v = s

\* the value of column response_body for a query parameter: [ok, val]
JsonColumn(param) ==
  IF param.t = "undefined" THEN [ok |-> TRUE, val |-> Null]
  ELSE IF IsJsonText(param.v) THEN [ok |-> TRUE, val |-> JSONparse(param.v)]
  ELSE [ok |-> FALSE, val |-> Null]

Tuple(row) == <<row.agent_id, row.idem_key, row.method, row.route>>

\* mutant: the WHERE clause does not name the caller
SelectAnyAgent(rows, agent_id, idem_key, method, route) ==
  {row \in rows : <<row.idem_key, row.method, row.route>>
                     = <<idem_key, method, route>>}

\* SELECT ... WHERE agent_id = $1 AND idem_key = $2 AND method = $3 AND route = $4
Select(rows, agent_id, idem_key, method, route) ==
  {row \in rows : Tuple(row) = <<agent_id, idem_key, method, route>>}

\* mutant: ON CONFLICT ... DO UPDATE, the new row replacing the old one
InsertOrReplace(rows, row) ==
  {old \in rows : Tuple(old) # Tuple(row)} \cup {row}

\* mutant: a plain INSERT, without the conflict clause
InsertAlways(rows, row) == rows \cup {row}

\* INSERT ... ON CONFLICT (agent_id, idem_key, method, route) DO NOTHING
InsertOnConflictDoNothing(rows, row) ==
  IF \E old \in rows : Tuple(old) = Tuple(row) THEN rows ELSE rows \cup {row}

(***************************************************************************)
(* idempotencyMiddleware, up to the lookup.                                *)
(***************************************************************************)
\* if (!methods.includes(String(req.method).toUpperCase())) return next()
MethodCovered(ms, q) == toUpperCase(q.method) \in ms

\* mutant: the check of the caller is missing
HasAgentUnchecked(q) == TRUE

\* if (!req.agent || !req.agent.id) return next()
HasAgent(q) == q.agent # NoAgent /\ q.agent # ""

\* const key = String(req.get('Idempotency-Key') || '').trim()
KeyOf(q) == IF q.hdr.present THEN Trim(q.hdr.s) ELSE EmptyText

\* mutant: the bound is off by one
KeyTooLongOffByOne(key) == Length(key) > 201

\* if (key.length > 200) return next()
KeyTooLong(key) == Length(key) > 200

\* the request leaves the middleware by next() before any lookup
Bypass(ms, q) ==
  \/ ~MethodCovered(ms, q)
  \/ ~HasAgent(q)
  \/ Length(KeyOf(q)) = 0
  \/ KeyTooLong(KeyOf(q))

RouteOf(q) == q.baseUrl \o q.path

\* sha256(`${req.method}:${route}:${stableStringify(req.body)}`)
RequestHash(q) ==
  sha256(q.method \o ":" \o RouteOf(q) \o ":" \o stableStringify(q.body).s)

\* the response has been handed to the caller ('finish' has been emitted)
Finished(r) == res[r].ended /\ pc[r] \in {"insert", "done"}

Enter(r) ==
  /\ pc[r] = "new"
  /\ hist' = [hist EXCEPT ![r] = [sent |-> {o \in Reqs : Finished(o)},
                                  rows |-> store]]
  /\ IF Bypass(methods, req[r])
     THEN /\ pc' = [pc EXCEPT ![r] = "handler"]
          /\ decision' = [decision EXCEPT ![r] = "PASSTHROUGH"]
          /\ UNCHANGED <<ctx, nextErr>>
     ELSE IF stableStringify(req[r].body).throws
     THEN \* catch (err) { return next(err) }
          /\ pc' = [pc EXCEPT ![r] = "done"]
          /\ decision' = [decision EXCEPT ![r] = "ERROR"]
          /\ nextErr' = [nextErr EXCEPT ![r] = TRUE]
          /\ UNCHANGED ctx
     ELSE /\ pc' = [pc EXCEPT ![r] = "lookup"]
          /\ ctx' = [ctx EXCEPT ![r] = [key |-> KeyOf(req[r]),
                                        route |-> RouteOf(req[r]),
                                        requestHash |-> RequestHash(req[r]),
                                        existing |-> {}]]
          /\ UNCHANGED <<decision, nextErr>>
  /\ UNCHANGED <<methods, req, store, res, calls, commit>>

(***************************************************************************)
(* The lookup and the branch on its result.                                *)
(***************************************************************************)
\* mutant: a row with another fingerprint is taken for no row
DecideIgnoringMismatch(existing, requestHash) ==
  IF existing = {} \/ (CHOOSE e \in existing : TRUE).request_hash # requestHash
  THEN "EXECUTING"
  ELSE "REPLAY"

\* the branch taken for the row the lookup returned (existing: 0 or 1 rows)
Decide(existing, requestHash) ==
  IF existing = {} THEN "EXECUTING"
  ELSE LET row == CHOOSE e \in existing : TRUE
       IN IF row.request_hash # "" /\ row.request_hash # requestHash
          THEN "CONFLICT"
          ELSE "REPLAY"

\* JavaScript truthiness of a value read from the store
Truthy(val) ==
  ~ \/ val.t \in {"null", "undefined"}
    \/ val = Num(0)
    \/ val = Str("")
    \/ val = Bool(FALSE)

\* res.json(value) as Express sends it
JsonWire(val) == IF val.t = "undefined" THEN "" ELSE JSONstringify(val).v

\* mutant: json and send are replaced and the listener is registered before
\* the branch on the lookup's result
ConflictResponseIntercepted(rs) ==
  [rs EXCEPT !.statusCode = 409, !.body = JsonWire(ConflictBody), !.ended = TRUE,
             !.wrapped = TRUE, !.listener = TRUE]

\* res.status(409).json({ success: false, error: ... })
ConflictResponse(rs) ==
  [rs EXCEPT !.statusCode = 409, !.body = JsonWire(ConflictBody), !.ended = TRUE]

\* mutant: the marker header is not set
ReplayResponseUnmarked(rs, row) ==
  [rs EXCEPT !.statusCode = IF row.status_code # 0 THEN row.status_code ELSE 200,
             !.body = JsonWire(IF Truthy(row.response_body)
                               THEN row.response_body ELSE DefaultBody),
             !.ended = TRUE]

\* res.set('Idempotent-Replay', 'true'); res.status(status).json(body)
ReplayResponse(rs, row) ==
  [rs EXCEPT !.replay = TRUE,
             !.statusCode = IF row.status_code # 0 THEN row.status_code ELSE 200,
             !.body = JsonWire(IF Truthy(row.response_body)
                               THEN row.response_body ELSE DefaultBody),
             !.ended = TRUE]

\* res.json and res.send are replaced and the 'finish' listener is registered
Intercept(rs) == [rs EXCEPT !.wrapped = TRUE, !.listener = TRUE]

Lookup(r) ==
  /\ pc[r] = "lookup"
  /\ LET existing == Select(store, req[r].agent, ctx[r].key, req[r].method,
                            ctx[r].route)
         found == IF existing = {} THEN {} ELSE {CHOOSE e \in existing : TRUE}
         d == Decide(found, ctx[r].requestHash)
     IN /\ ctx' = [ctx EXCEPT ![r].existing = found]
        /\ decision' = [decision EXCEPT ![r] = d]
        /\ pc' = [pc EXCEPT ![r] = IF d = "EXECUTING" THEN "handler" ELSE "responded"]
        /\ res' = [res EXCEPT ![r] =
                     CASE d = "CONFLICT" -> ConflictResponse(res[r])
                       [] d = "REPLAY" ->
                            ReplayResponse(res[r], CHOOSE e \in found : TRUE)
                       [] OTHER -> Intercept(res[r])]
  /\ UNCHANGED <<methods, req, store, calls, nextErr, commit, hist>>

\* mutant: a rejected queryOne is swallowed and the handler runs
OnLookupErrorFailOpen ==
  [nextErr |-> FALSE, pc |-> "handler", decision |-> "PASSTHROUGH"]

\* what the outer catch does with a rejected queryOne: [nextErr, pc, decision]
OnLookupError == [nextErr |-> TRUE, pc |-> "done", decision |-> "ERROR"]

\* queryOne rejects (the store is unavailable)
LookupFail(r) ==
  /\ pc[r] = "lookup"
  /\ nextErr' = [nextErr EXCEPT ![r] = OnLookupError.nextErr]
  /\ pc' = [pc EXCEPT ![r] = OnLookupError.pc]
  /\ decision' = [decision EXCEPT ![r] = OnLookupError.decision]
  /\ UNCHANGED <<methods, req, store, ctx, res, calls, commit, hist>>

(***************************************************************************)
(* The downstream handler, the 'finish' listener and the insert.           *)
(***************************************************************************)
\* the handler's call of res.json / res.send / res.end on response rs
Emit(rs, o) ==
  [rs EXCEPT !.statusCode = o.status,
             !.body = CASE o.emit = "json" -> JsonWire(o.body)
                        [] o.emit = "send" -> o.body.v
                        [] OTHER -> "",
             !.idemBody = IF rs.wrapped /\ o.emit \in {"json", "send"}
                          THEN o.body ELSE rs.idemBody,
             !.ended = TRUE]

Handler(r) ==
  /\ pc[r] = "handler"
  /\ \E o \in HandlerOutcomes : res' = [res EXCEPT ![r] = Emit(res[r], o)]
  /\ calls' = [calls EXCEPT ![r] = calls[r] + 1]
  /\ pc' = [pc EXCEPT ![r] = "responded"]
  /\ UNCHANGED <<methods, req, store, ctx, decision, nextErr, commit, hist>>

\* mutant: the upper end of the range is included
StorableUpTo300(statusCode) == ~(statusCode < 200 \/ statusCode > 300)

\* if (res.statusCode < 200 || res.statusCode >= 300) return
Storable(statusCode) == ~(statusCode < 200 \/ statusCode >= 300)

\* typeof responseBody === 'string' ? responseBody : JSON.stringify(responseBody)
ResponseBodyJson(responseBody) ==
  IF responseBody.t = "string" THEN responseBody ELSE JSONstringify(responseBody)

\* the 'finish' event of the response
Finish(r) ==
  /\ pc[r] = "responded"
  /\ IF res[r].listener /\ Storable(res[r].statusCode)
        /\ ~Throws(res[r].idemBody)
     THEN /\ pc' = [pc EXCEPT ![r] = "insert"]
          /\ commit' = [commit EXCEPT ![r] =
               [state |-> "pending",
                params |-> [response_body |-> ResponseBodyJson(res[r].idemBody),
                            status_code |-> res[r].statusCode]]]
     ELSE /\ pc' = [pc EXCEPT ![r] = "done"]
          /\ commit' = [commit EXCEPT ![r].state =
               IF res[r].listener THEN "skipped" ELSE "none"]
  /\ UNCHANGED <<methods, req, store, ctx, res, decision, calls, nextErr, hist>>

\* mutant: the insert parameters are read from a slot the requests share
RowOfSharedSlot(r) ==
  LET o == IF \E q \in Reqs : pc[q] = "insert"
           THEN CHOOSE q \in Reqs : pc[q] = "insert" ELSE r
  IN [agent_id |-> req[r].agent, idem_key |-> ctx[r].key,
      method |-> req[r].method, route |-> ctx[r].route,
      request_hash |-> ctx[r].requestHash,
      status_code |-> commit[o].params.status_code,
      response_body |-> JsonColumn(commit[o].params.response_body).val]

\* the row of the INSERT of request r
RowOf(r) ==
  [agent_id |-> req[r].agent, idem_key |-> ctx[r].key, method |-> req[r].method,
   route |-> ctx[r].route, request_hash |-> ctx[r].requestHash,
   status_code |-> commit[r].params.status_code,
   response_body |-> JsonColumn(commit[r].params.response_body).val]

\* mutant: the listener has no catch and the rejection reaches the request
OnCommitErrorRethrown == [nextErr |-> TRUE, pc |-> "done", state |-> "failed"]

\* what the listener's catch does with a rejected query: [nextErr, pc, state]
OnCommitError == [nextErr |-> FALSE, pc |-> "done", state |-> "failed"]

\* the store executes the INSERT
Insert(r) ==
  /\ pc[r] = "insert"
  /\ IF JsonColumn(commit[r].params.response_body).ok
     THEN /\ store' = InsertOnConflictDoNothing(store, RowOf(r))
          /\ commit' = [commit EXCEPT ![r].state =
               IF store' # store THEN "created" ELSE "absorbed"]
          /\ pc' = [pc EXCEPT ![r] = "done"]
          /\ UNCHANGED nextErr
     ELSE \* invalid input for the JSON column: the query rejects
          /\ commit' = [commit EXCEPT ![r].state = OnCommitError.state]
          /\ pc' = [pc EXCEPT ![r] = OnCommitError.pc]
          /\ nextErr' = [nextErr EXCEPT ![r] = nextErr[r] \/ OnCommitError.nextErr]
          /\ UNCHANGED store
  /\ UNCHANGED <<methods, req, ctx, res, decision, calls, hist>>

\* the query rejects (the store is unavailable)
InsertFail(r) ==
  /\ pc[r] = "insert"
  /\ commit' = [commit EXCEPT ![r].state = OnCommitError.state]
  /\ pc' = [pc EXCEPT ![r] = OnCommitError.pc]
  /\ nextErr' = [nextErr EXCEPT ![r] = nextErr[r] \/ OnCommitError.nextErr]
  /\ UNCHANGED <<methods, req, store, ctx, res, decision, calls, hist>>

Next ==
  \E r \in Reqs :
    \/ Enter(r)
    \/ Lookup(r)
    \/ LookupFail(r)
    \/ Handler(r)
    \/ Finish(r)
    \/ Insert(r)
    \/ InsertFail(r)

Spec == Init /\ [][Next]_vars

SpecBypass == InitBypass /\ [][Next]_vars

SpecScopes == InitScopes /\ [][Next]_vars

\* the middleware up to the fingerprint: every request computes requestHash
NextFingerprint == \E r \in Reqs : Enter(r)

SpecFingerprint == InitFingerprint /\ [][NextFingerprint]_vars

(***************************************************************************)
(* Properties.                                                             *)
(***************************************************************************)
\* r went past every bypass: it carries a usable key
Keyed(r) == ~Bypass(methods, req[r])

TupleOf(r) == <<req[r].agent, KeyOf(req[r]), req[r].method, RouteOf(req[r])>>

SameTuple(a, b) == a # b /\ Keyed(a) /\ Keyed(b) /\ TupleOf(a) = TupleOf(b)

\* the handler of r ran and r's response, a 2xx, has been sent
Completed2xx(r) ==
  calls[r] = 1 /\ Finished(r)
  /\ res[r].statusCode >= 200 /\ res[r].statusCode < 300

\* a was complete, its record in the store, when b entered the middleware
CommittedBefore(a, b) ==
  /\ Completed2xx(a)
  /\ a \in hist[b].sent
  /\ commit[a].state = "created"
  /\ hist[b].rows # {}
  /\ RowOf(a) \in hist[b].rows

\* C1: a request R2 that enters after R1 (same tuple, same body) completed
\* with a 2xx is answered with R1's status and body, marked as a replay, and
\* its handler is not invoked.  Stated for the case most favourable to the
\* claim: R1's record is already in the store when R2 enters.
C1_ReplayIsFirstResponse ==
  \A a, b \in Reqs :
    (CommittedBefore(a, b) /\ res[b].ended
     /\ SameTuple(a, b) /\ req[a].body = req[b].body)
    => /\ res[b].statusCode = res[a].statusCode
       /\ res[b].body = res[a].body
       /\ res[b].replay
       /\ calls[b] = 0

\* C2: a request R2 that enters after R1 (same tuple, another body) completed
\* with a 2xx is answered with 409 and its handler is not invoked.  Stated
\* for the case most favourable to the claim: R1's record is already in the
\* store when R2 enters.
C2_ConflictOnOtherBody ==
  \A a, b \in Reqs :
    (CommittedBefore(a, b) /\ res[b].ended
     /\ SameTuple(a, b) /\ req[a].body # req[b].body)
    => /\ res[b].statusCode = 409
       /\ calls[b] = 0

\* C3: for one tuple the handler is invoked with a 2xx outcome at most once,
\* whatever the interleaving.
C3_AtMostOne2xxPerTuple ==
  \A a, b \in Reqs :
    (Completed2xx(a) /\ Completed2xx(b)) => ~SameTuple(a, b)

\* C3, amended: two 2xx invocations of the handler for one tuple happen only
\* in a race, both requests having entered while the store held no record of
\* the tuple.
C3_Second2xxOnlyInRace ==
  \A a, b \in Reqs :
    (Completed2xx(a) /\ Completed2xx(b) /\ SameTuple(a, b))
    => \A row \in hist[a].rows \cup hist[b].rows : Tuple(row) # TupleOf(a)

C3_Witness ==
  \E a, b \in Reqs :
    /\ SameTuple(a, b) /\ Completed2xx(a) /\ Completed2xx(b)
    /\ commit[a].state = "created" /\ commit[b].state = "absorbed"

\* C4: the store holds at most one record per tuple; of the inserts of one
\* tuple that the store executed exactly one created the record, the others
\* were no-ops, and none of them raised an error to its request.
C4_OneRecordPerTuple ==
  /\ \A x, y \in store : Tuple(x) = Tuple(y) => x = y
  /\ \A r \in Reqs :
       commit[r].state \in {"created", "absorbed"}
       => /\ ~nextErr[r]
          /\ Cardinality({o \in Reqs : /\ commit[o].state = "created"
                                       /\ TupleOf(o) = TupleOf(r)}) = 1
          /\ Cardinality({row \in store : Tuple(row) = TupleOf(r)}) = 1

C4_Witness ==
  \E a, b \in Reqs :
    /\ SameTuple(a, b)
    /\ commit[a].state = "created" /\ commit[b].state = "absorbed"
    /\ hist[b].rows = {}
    /\ RowOf(a) # RowOf(b)
    /\ store = {RowOf(a)}

\* queryOne rejected for r
LookupFailed(r) == decision[r] = "ERROR" /\ ctx[r].requestHash # ""

\* C5: when the lookup fails the request fails open: the handler is invoked
\* and no error is surfaced.
C5_LookupFailureFailsOpen ==
  \A r \in Reqs :
    (LookupFailed(r) /\ pc[r] = "done") => (calls[r] = 1 /\ ~nextErr[r])

\* C6: every record has a status in [200, 300); a request that finished with
\* another status never attempts the insert; and a retry of such a request,
\* the store holding no record of the tuple, executes the handler again.
C6_Only2xxStored ==
  /\ \A row \in store : row.status_code >= 200 /\ row.status_code < 300
  /\ \A r \in Reqs :
       (Finished(r) /\ (res[r].statusCode < 200 \/ res[r].statusCode >= 300))
       => commit[r].state \in {"none", "skipped"}
  /\ \A a, b \in Reqs :
       (/\ a \in hist[b].sent /\ commit[a].state = "skipped"
        /\ pc[b] \notin {"new", "lookup"} /\ ~LookupFailed(b)
        /\ SameTuple(a, b)
        /\ \A row \in store : Tuple(row) # TupleOf(b))
       => /\ decision[b] = "EXECUTING"
          /\ (pc[b] # "handler" => calls[b] = 1)

C6_Witness ==
  \E a, b \in Reqs :
    /\ SameTuple(a, b)
    /\ a \in hist[b].sent /\ commit[a].state = "skipped"
    /\ res[a].statusCode = 500
    /\ store = {}
    /\ calls[b] = 1 /\ pc[b] = "done"

\* C7: a request whose Idempotency-Key header value is longer than 200
\* characters passes through, without lookup, replay or conflict, and no
\* record has a key longer than 200 characters.
C7_LongHeaderPassesThrough ==
  /\ \A r \in Reqs :
       (req[r].hdr.present /\ Length(req[r].hdr.s) > 200 /\ pc[r] # "new")
       => /\ decision[r] = "PASSTHROUGH"
          /\ ctx[r] = NoCtx
  /\ \A row \in store : Length(row.idem_key) <= 200

\* C7, amended: a request whose key, the header value with the surrounding
\* whitespace trimmed, is longer than 200 characters passes through, without
\* lookup, replay or conflict, and no record has a key longer than 200
\* characters.
C7_LongKeyPassesThrough ==
  /\ \A r \in Reqs :
       (req[r].hdr.present /\ Length(Trim(req[r].hdr.s)) > 200 /\ pc[r] # "new")
       => /\ decision[r] = "PASSTHROUGH"
          /\ ctx[r] = NoCtx
          /\ pc[r] \notin {"lookup", "insert"}
          /\ ~res[r].replay
  /\ \A row \in store : Length(row.idem_key) <= 200

C7_Witness ==
  \E r \in Reqs :
    /\ req[r].hdr.present /\ Length(Trim(req[r].hdr.s)) = 201
    /\ MethodCovered(methods, req[r]) /\ HasAgent(req[r])
    /\ pc[r] = "done" /\ calls[r] = 1
    /\ \E row \in store : Length(row.idem_key) = 200

\* the bypass conditions of the claim, read off the request
NotCovered(r) ==
  \/ toUpperCase(req[r].method) \notin methods
  \/ req[r].agent = NoAgent
  \/ ~req[r].hdr.present

\* C8: a request that meets a bypass condition (method not configured, no
\* caller, no header) passes through: the handler is invoked, the store is
\* neither read nor written, nothing is intercepted and the response is no
\* replay and no conflict of this layer.
C8_BypassPassesThrough ==
  \A r \in Reqs :
    (NotCovered(r) /\ pc[r] # "new")
    => /\ decision[r] = "PASSTHROUGH"
       /\ pc[r] \in {"handler", "responded", "done"}
       /\ (pc[r] # "handler" => calls[r] = 1)
       /\ ctx[r] = NoCtx
       /\ commit[r].state = "none"
       /\ ~res[r].wrapped /\ ~res[r].listener /\ ~res[r].replay
       /\ res[r].idemBody = Undefined
       /\ ~nextErr[r]

C8_Witness ==
  \E a, b \in Reqs :
    /\ req[a].agent = NoAgent /\ pc[a] = "done" /\ calls[a] = 1
    /\ req[b] = BaseRequest /\ commit[b].state = "created" /\ b \in hist[a].sent

\* C9: a failure of the commit insert is swallowed: the step that fails
\* changes neither the response, nor the store, nor the handler count, raises
\* no error and ends the request, which never retries the insert.
C9_CommitFailureSwallowed ==
  [][\A r \in Reqs :
       /\ (commit[r].state = "pending" /\ commit'[r].state = "failed")
          => /\ res' = res /\ store' = store /\ calls' = calls
             /\ nextErr' = nextErr
             /\ pc'[r] = "done"
       /\ commit[r].state = "failed"
          => /\ pc'[r] = pc[r] /\ commit'[r] = commit[r]
             /\ res'[r] = res[r] /\ calls'[r] = calls[r]
             /\ nextErr'[r] = nextErr[r]]_vars

C9_Witness ==
  \E r \in Reqs :
    /\ commit[r].state = "failed" /\ pc[r] = "done"
    /\ JsonColumn(commit[r].params.response_body).ok
    /\ \A row \in store : Tuple(row) # TupleOf(r)

\* C10: the marker Idempotent-Replay is on a response exactly when the
\* response was served from a stored record: never on a pass-through, on the
\* response of an executing handler or on a 409.
C10_MarkerIffReplay ==
  \A r \in Reqs :
    res[r].ended
    => /\ res[r].replay <=> decision[r] = "REPLAY"
       /\ res[r].replay
          => /\ calls[r] = 0
             /\ \E row \in store : /\ Tuple(row) = TupleOf(r)
                                   /\ row.request_hash = ctx[r].requestHash

C10_Witness ==
  \E a, b \in Reqs :
    /\ res[a].ended /\ res[a].replay
    /\ res[b].ended /\ decision[b] = "EXECUTING" /\ ~res[b].replay

\* C11: the store is append-only: a record that exists stays in the store
\* with its request_hash, status_code and response_body as they are, and no
\* record of its tuple with other values appears, whatever step is taken.
C11_AppendOnly ==
  [][\A row \in store :
       /\ row \in store'
       /\ \A new \in store' : Tuple(new) = Tuple(row) => new = row]_vars

\* a's record is in the store, unchanged, after b's insert of another row for
\* the same tuple was executed
C11_Witness ==
  \E a, b \in Reqs :
    /\ commit[a].state = "created" /\ commit[b].state = "absorbed"
    /\ RowOf(a).status_code # RowOf(b).status_code
    /\ RowOf(a) \in store /\ RowOf(b) \notin store

\* the records of r's own tuple (agent_id, idem_key, method, route)
OwnRows(r) == {row \in store : Tuple(row) = TupleOf(r)}

C13_ConflictAndReplayHaveNoEffect ==
  [][\A r \in Reqs :
       decision'[r] \in {"CONFLICT", "REPLAY"}
       => /\ calls'[r] = 0
          /\ ~res'[r].wrapped /\ ~res'[r].listener
          /\ res'[r].idemBody = Undefined
          /\ commit'[r] = [state |-> "none", params |-> NoParams]
          /\ pc'[r] \in {"responded", "done"}
          /\ pc'[r] # pc[r] => store' = store]_vars

\* a request answered with 409 has finished, the store holding the one record
\* it found
C13_Witness ==
  \E a, b \in Reqs :
    /\ decision[b] = "CONFLICT" /\ pc[b] = "done" /\ res[b].statusCode = 409
    /\ store = {RowOf(a)} /\ ctx[b].existing = store

\* x and y are objects with the same property names and, name by name, the
\* same values (objects again compared this way), in whatever order
RECURSIVE SameMembers(_, _)
SameMembers(x, y) ==
  IF x.t = "object" /\ y.t = "object"
  THEN /\ Range(ObjectKeys(x)) = Range(ObjectKeys(y))
       /\ \A k \in Range(ObjectKeys(x)) : SameMembers(Get(x, k), Get(y, k))
  ELSE x = y

\* C14: for one method and route, object bodies with the same keys and values
\* in another key order have the same fingerprint; a string body enters the
\* hash unchanged and a null or undefined body as the empty string.
C14_FingerprintKeyOrder ==
  /\ \A r \in Reqs :
       pc[r] = "lookup"
       => /\ req[r].body.t \in {"null", "undefined"}
             => ctx[r].requestHash = "sha256(POST:/api/orders:)"
          /\ req[r].body.t = "string"
             => ctx[r].requestHash
                  = "sha256(POST:/api/orders:" \o req[r].body.v \o ")"
  /\ \A a, b \in Reqs :
       (pc[a] = "lookup" /\ pc[b] = "lookup"
        /\ req[a].body.t = "object" /\ SameMembers(req[a].body, req[b].body))
       => ctx[a].requestHash = ctx[b].requestHash

\* the fingerprints of {a:1,b:2} and {b:2,a:1} have been computed
C14_Witness ==
  \E a, b \in Reqs :
    /\ req[a].body = BodyAB /\ req[b].body = BodyBA
    /\ pc[a] = "lookup" /\ pc[b] = "lookup"
    /\ ctx[b].requestHash = "sha256(POST:/api/orders:{\"a\":1,\"b\":2})"

\* C15: a body that cannot be serialized is fingerprinted without a throw:
\* the request has a hash and goes on to the lookup, not to next(err).
C15_UnserializableBodyHashed ==
  \A r \in Reqs :
    (pc[r] # "new" /\ Throws(req[r].body))
    => /\ ~nextErr[r]
       /\ decision[r] # "ERROR"
       /\ ctx[r].requestHash # ""

\* the handler of r ran and answered with a status outside [200, 300)
CompletedNon2xx(r) ==
  calls[r] = 1 /\ res[r].ended
  /\ (res[r].statusCode < 200 \/ res[r].statusCode >= 300)

\* the stored body, sent as it is (nothing for a record without body)
Verbatim(row) ==
  IF row.response_body = Null THEN {"", "null"}
  ELSE {JsonWire(row.response_body)}

\* C16: a replay carries the status_code and the response_body of the record
\* the lookup returned, as they are stored, also when the stored body is
\* absent or a falsy JSON value; no default is put in their place.
C16_ReplayVerbatim ==
  \A r \in Reqs :
    (decision[r] = "REPLAY" /\ res[r].ended)
    => \A row \in ctx[r].existing :
         /\ res[r].statusCode = row.status_code
         /\ res[r].body \in Verbatim(row)

\* C17: after the handler answered with a status outside [200, 300) the
\* captured-body slot (res.locals.__idemBody) of the request holds no body.
C17_NoCaptureOfNon2xx ==
  \A r \in Reqs : CompletedNon2xx(r) => res[r].idemBody = Undefined

\* C18: a request that enters when the store holds a record of its tuple
\* never reaches the handler, whatever its body and whether its lookup
\* succeeds or fails; a request reaches the handler only by a step taken
\* while the store holds no record of its tuple.
C18_NoHandlerOnceRecorded ==
  [][\A r \in Reqs :
       /\ (pc'[r] = "handler" /\ pc[r] # "handler" /\ Keyed(r))
          => OwnRows(r) = {}
       /\ (hist'[r].rows # {} /\ Keyed(r)
           /\ \E row \in hist'[r].rows : Tuple(row) = TupleOf(r))
          => pc'[r] # "handler" /\ calls'[r] = 0]_vars

\* b, with another body, entered after a's record was created; its lookup
\* failed and its handler did not run
C18_Witness ==
  \E a, b \in Reqs :
    /\ commit[a].state = "created" /\ RowOf(a) \in hist[b].rows
    /\ LookupFailed(b) /\ pc[b] = "done" /\ calls[b] = 0
    /\ req[a].body # req[b].body /\ SameTuple(a, b)

\* C19: every record of the store has a non-empty request_hash and is, field
\* by field, the record of one request: a request of the record's tuple that
\* reached EXECUTING, whose handler ran, that finished with the record's
\* status, a 2xx, whose fingerprint is the record's request_hash and whose
\* captured body is the record's response_body.
C19_RecordFromOneRequest ==
  \A row \in store :
    /\ row.request_hash # ""
    /\ \E r \in Reqs :
         /\ commit[r].state = "created"
         /\ decision[r] = "EXECUTING" /\ calls[r] = 1
         /\ row.status_code = res[r].statusCode
         /\ row.status_code >= 200 /\ row.status_code < 300
         /\ row.response_body
              = JsonColumn(ResponseBodyJson(res[r].idemBody)).val
         /\ row.request_hash = RequestHash(req[r])
         /\ Tuple(row) = TupleOf(r)

\* two requests of one tuple with different fingerprints and different 2xx
\* answers raced, and the record is the one of the request whose insert came
\* first
C19_Witness ==
  \E a, b \in Reqs :
    /\ commit[a].state = "created" /\ commit[b].state = "absorbed"
    /\ res[a].statusCode # res[b].statusCode
    /\ res[a].body # res[b].body
    /\ ctx[a].requestHash # ctx[b].requestHash
    /\ \E row \in store :
         store = {row} /\ row.request_hash = ctx[a].requestHash
         /\ row.status_code = res[a].statusCode

\* how request r ended
Outcome(r) ==
  CASE decision[r] = "EXECUTING" /\ commit[r].state \in {"created", "absorbed"}
         -> "COMMITTED"
    [] decision[r] = "EXECUTING" /\ commit[r].state \in {"skipped", "failed"}
         -> "UNCOMMITTED"
    [] OTHER -> decision[r]

\* C20: a request that has ended ended in one of PASSTHROUGH, REPLAY,
\* CONFLICT, COMMITTED and UNCOMMITTED, and an insert is attempted only after
\* the response has been sent.
C20_EndsInOneOutcome ==
  \A r \in Reqs :
    /\ pc[r] = "done"
       => Outcome(r) \in {"PASSTHROUGH", "REPLAY", "CONFLICT", "COMMITTED",
                          "UNCOMMITTED"}
    /\ commit[r].state \in {"pending", "created", "absorbed", "failed"}
       => res[r].ended
====
